---- MODULE Spec2Model ----
(***************************************************************************)
(* The todo list of src/src/App.tsx: the useTodos hook (load from          *)
(* localStorage, add / remove / toggle, write back after every change),    *)
(* the submit handler of Home, uid(), and the JSON text that travels       *)
(* through localStorage.  Browser tabs are the sessions; they share one    *)
(* localStorage entry.                                                     *)
(*                                                                         *)
(* Text is a sequence of one-character strings.  A JavaScript value is a   *)
(* tagged tuple: <<"undefined">>, <<"null">>, <<"bool", b>>, <<"num", n>>, *)
(* <<"str", chars>>, <<"arr", values>>, <<"obj", <<key, value>> pairs in   *)
(* property order>>.  Numbers are integers and property keys are           *)
(* non-numeric in every input of the model, so property order is           *)
(* insertion order.                                                        *)
(*                                                                         *)
(* A handler and the effect on [todos] that follows it are one step.  The  *)
(* text of the input field is drawn anew at every submission.  Calls of    *)
(* localStorage.setItem succeed.  The dark-mode preference of useDarkMode  *)
(* lives under its own key and is left out.                                *)
(***************************************************************************)
EXTENDS Integers, Sequences, FiniteSets, TLC

VARIABLES storage, todos, status, now, last

vars == <<storage, todos, status, now, last>>

\* ---- bounds ---------------------------------------------------------------
MaxTodos == 2
MaxTick == 1

\* ---- characters -----------------------------------------------------------
QUOTE == "\""
BSLASH == "\\"
NL == "\n"
TAB == "\t"
CR == "\r"

Digits36 == <<"0", "1", "2", "3", "4", "5", "6", "7", "8", "9",
              "a", "b", "c", "d", "e", "f", "g", "h", "i", "j",
              "k", "l", "m", "n", "o", "p", "q", "r", "s", "t",
              "u", "v", "w", "x", "y", "z">>

DecDigits == {"0", "1", "2", "3", "4", "5", "6", "7", "8", "9"}

DigitValue(c) == (CHOOSE k \in 1..36 : Digits36[k] = c) - 1

\* ---- JavaScript values ----------------------------------------------------
JUndef == <<"undefined">>
JNull == <<"null">>
JBool(b) == <<"bool", b>>
JNum(n) == <<"num", n>>
JStr(s) == <<"str", s>>
JArr(a) == <<"arr", a>>
JObj(p) == <<"obj", p>>

Tag(v) == v[1]

K_id == <<"i", "d">>
K_title == <<"t", "i", "t", "l", "e">>
K_completed == <<"c", "o", "m", "p", "l", "e", "t", "e", "d">>

\* Number.prototype.toString(radix) for a non-negative integer
RECURSIVE NatToString(_, _)
NatToString(n, radix) ==
  IF n < radix THEN <<Digits36[n + 1]>>
  ELSE NatToString(n \div radix, radix) \o <<Digits36[(n % radix) + 1]>>

IntToString(n) ==
  IF n < 0 THEN <<"-">> \o NatToString(0 - n, 10) ELSE NatToString(n, 10)

\* obj[key] = value on a property list: an existing key keeps its position
SetProp(p, k, v) ==
  IF \E i \in 1..Len(p) : p[i][1] = k
  THEN [i \in 1..Len(p) |-> IF p[i][1] = k THEN <<k, v>> ELSE p[i]]
  ELSE Append(p, <<k, v>>)

\* own enumerable properties copied by an object spread {...t}
OwnProps(t) ==
  CASE Tag(t) = "obj" -> t[2]
    [] Tag(t) = "arr" -> [i \in 1..Len(t[2]) |-> <<NatToString(i - 1, 10), t[2][i]>>]
    [] Tag(t) = "str" -> [i \in 1..Len(t[2]) |-> <<NatToString(i - 1, 10), JStr(<<t[2][i]>>)>>]
    [] OTHER -> <<>>

\* t.key throws a TypeError on null and undefined
GetThrows(t) == Tag(t) \in {"null", "undefined"}

\* t.key for the keys the program reads (id, title, completed)
Get(t, k) ==
  IF Tag(t) = "obj" /\ \E i \in 1..Len(t[2]) : t[2][i][1] = k
  THEN t[2][CHOOSE i \in 1..Len(t[2]) : t[2][i][1] = k][2]
  ELSE JUndef

\* a === b for primitives (no input of the model has an object-valued id)
StrictEq(a, b) == a = b

\* ToBoolean
Truthy(v) ==
  CASE Tag(v) \in {"undefined", "null"} -> FALSE
    [] Tag(v) = "bool" -> v[2]
    [] Tag(v) = "num" -> v[2] # 0
    [] Tag(v) = "str" -> v[2] # <<>>
    [] OTHER -> TRUE

\* ---- JSON.stringify -------------------------------------------------------
\* a character written into a string literal as it is
EscapeCharRaw(c) == <<c>>

EscapeChar(c) ==
  CASE c = QUOTE -> <<BSLASH, QUOTE>>
    [] c = BSLASH -> <<BSLASH, BSLASH>>
    [] c = NL -> <<BSLASH, "n">>
    [] c = TAB -> <<BSLASH, "t">>
    [] c = CR -> <<BSLASH, "r">>
    [] OTHER -> <<c>>

RECURSIVE EscapeChars(_)
EscapeChars(s) ==
  IF s = <<>> THEN <<>> ELSE EscapeChar(Head(s)) \o EscapeChars(Tail(s))

QuoteJSONString(s) == <<QUOTE>> \o EscapeChars(s) \o <<QUOTE>>

RECURSIVE JSON_stringify(_)
RECURSIVE StringifyElements(_)
RECURSIVE StringifyMembers(_, _)

StringifyElements(a) ==
  IF a = <<>> THEN <<>>
  ELSE (IF Tag(Head(a)) = "undefined" THEN <<"n", "u", "l", "l">>
        ELSE JSON_stringify(Head(a)))
       \o (IF Len(a) > 1 THEN <<",">> ELSE <<>>)
       \o StringifyElements(Tail(a))

StringifyMembers(p, first) ==
  IF p = <<>> THEN <<>>
  ELSE IF Tag(Head(p)[2]) = "undefined" THEN StringifyMembers(Tail(p), first)
  ELSE (IF first THEN <<>> ELSE <<",">>)
       \o QuoteJSONString(Head(p)[1]) \o <<":">> \o JSON_stringify(Head(p)[2])
       \o StringifyMembers(Tail(p), FALSE)

JSON_stringify(v) ==
  CASE Tag(v) = "null" -> <<"n", "u", "l", "l">>
    [] Tag(v) = "bool" -> IF v[2] THEN <<"t", "r", "u", "e">>
                          ELSE <<"f", "a", "l", "s", "e">>
    [] Tag(v) = "num" -> IntToString(v[2])
    [] Tag(v) = "str" -> QuoteJSONString(v[2])
    [] Tag(v) = "arr" -> <<"[">> \o StringifyElements(v[2]) \o <<"]">>
    [] Tag(v) = "obj" -> <<"{">> \o StringifyMembers(v[2], TRUE) \o <<"}">>

\* ---- JSON.parse -----------------------------------------------------------
\* A parse step returns [ok, v, i]: success, the value, the next position.
JSONWhitespace == {" ", NL, TAB, CR}
ControlChars == {NL, TAB, CR}

Fail == [ok |-> FALSE, v |-> JUndef, i |-> 0]
Got(v, i) == [ok |-> TRUE, v |-> v, i |-> i]

RECURSIVE SkipWS(_, _)
SkipWS(s, i) ==
  IF i <= Len(s) /\ s[i] \in JSONWhitespace THEN SkipWS(s, i + 1) ELSE i

Unescape(c) ==
  CASE c = "n" -> NL
    [] c = "t" -> TAB
    [] c = "r" -> CR
    [] OTHER -> c

\* the characters of a string literal, from the position after its opening quote
RECURSIVE ParseChars(_, _, _)
ParseChars(s, i, acc) ==
  IF i > Len(s) THEN Fail
  ELSE IF s[i] = QUOTE THEN Got(acc, i + 1)
  ELSE IF s[i] \in ControlChars THEN Fail
  ELSE IF s[i] = BSLASH
       THEN IF i + 1 <= Len(s) /\ s[i + 1] \in {QUOTE, BSLASH, "/", "n", "t", "r"}
            THEN ParseChars(s, i + 2, Append(acc, Unescape(s[i + 1])))
            ELSE Fail
  ELSE ParseChars(s, i + 1, Append(acc, s[i]))

RECURSIVE ParseDigits(_, _, _)
ParseDigits(s, i, acc) ==
  IF i <= Len(s) /\ s[i] \in DecDigits
  THEN ParseDigits(s, i + 1, acc * 10 + DigitValue(s[i]))
  ELSE Got(acc, i)

\* an integer literal: no leading zero
ParseNat(s, i) ==
  IF i > Len(s) \/ s[i] \notin DecDigits THEN Fail
  ELSE IF s[i] = "0" THEN Got(0, i + 1)
  ELSE ParseDigits(s, i, 0)

Matches(s, i, word) ==
  /\ i + Len(word) - 1 <= Len(s)
  /\ \A k \in 1..Len(word) : s[i + k - 1] = word[k]

RECURSIVE ParseValue(_, _)
RECURSIVE ParseElements(_, _, _)
RECURSIVE ParseMembers(_, _, _)

\* after "[" or ",": value, then "," or "]"
ParseElements(s, i, acc) ==
  LET e == ParseValue(s, i)
      j == SkipWS(s, e.i)
  IN IF ~e.ok \/ j > Len(s) THEN Fail
     ELSE IF s[j] = "]" THEN Got(JArr(Append(acc, e.v)), j + 1)
     ELSE IF s[j] = "," THEN ParseElements(s, j + 1, Append(acc, e.v))
     ELSE Fail

\* after "{" or ",": string ":" value, then "," or "}"
ParseMembers(s, i, acc) ==
  LET k0 == SkipWS(s, i)
      key == IF k0 <= Len(s) /\ s[k0] = QUOTE THEN ParseChars(s, k0 + 1, <<>>) ELSE Fail
      c == SkipWS(s, key.i)
      e == IF key.ok /\ c <= Len(s) /\ s[c] = ":" THEN ParseValue(s, c + 1) ELSE Fail
      j == SkipWS(s, e.i)
  IN IF ~e.ok \/ j > Len(s) THEN Fail
     ELSE IF s[j] = "}" THEN Got(JObj(SetProp(acc, key.v, e.v)), j + 1)
     ELSE IF s[j] = "," THEN ParseMembers(s, j + 1, SetProp(acc, key.v, e.v))
     ELSE Fail

ParseValue(s, i0) ==
  LET i == SkipWS(s, i0)
  IN IF i > Len(s) THEN Fail
     ELSE IF s[i] = "[" THEN
            LET j == SkipWS(s, i + 1)
            IN IF j <= Len(s) /\ s[j] = "]" THEN Got(JArr(<<>>), j + 1)
               ELSE ParseElements(s, i + 1, <<>>)
     ELSE IF s[i] = "{" THEN
            LET j == SkipWS(s, i + 1)
            IN IF j <= Len(s) /\ s[j] = "}" THEN Got(JObj(<<>>), j + 1)
               ELSE ParseMembers(s, i + 1, <<>>)
     ELSE IF s[i] = QUOTE THEN
            LET r == ParseChars(s, i + 1, <<>>)
            IN IF r.ok THEN Got(JStr(r.v), r.i) ELSE Fail
     ELSE IF s[i] = "-" THEN
            LET r == ParseNat(s, i + 1)
            IN IF r.ok THEN Got(JNum(0 - r.v), r.i) ELSE Fail
     ELSE IF s[i] \in DecDigits THEN
            LET r == ParseNat(s, i)
            IN IF r.ok THEN Got(JNum(r.v), r.i) ELSE Fail
     ELSE IF Matches(s, i, <<"t", "r", "u", "e">>) THEN Got(JBool(TRUE), i + 4)
     ELSE IF Matches(s, i, <<"f", "a", "l", "s", "e">>) THEN Got(JBool(FALSE), i + 5)
     ELSE IF Matches(s, i, <<"n", "u", "l", "l">>) THEN Got(JNull, i + 4)
     ELSE Fail

\* JSON.parse(text): ok = FALSE stands for the SyntaxError it throws
JSON_parse(text) ==
  LET r == ParseValue(text, 1)
  IN IF r.ok /\ SkipWS(text, r.i) = Len(text) + 1
     THEN [ok |-> TRUE, v |-> r.v]
     ELSE [ok |-> FALSE, v |-> JUndef]

\* ---- helpers of the program ------------------------------------------------
STORAGE_KEY == <<"t", "o", "d", "o", "s", "-", "v", "2">>

\* String.prototype.slice(from, to) with 0 <= from <= to
Slice(s, from, to) == SubSeq(s, from + 1, IF to < Len(s) THEN to ELSE Len(s))

\* Math.random() is given by its base-36 fraction digits; toString(36) of it
RandomToString36(frac) == IF frac = <<>> THEN <<"0">> ELSE <<"0", ".">> \o frac

uid(frac, t) == Slice(RandomToString36(frac), 2, 9) \o NatToString(t, 36)

WhiteSpace == {" ", NL, TAB, CR}

RECURSIVE TrimStart(_)
TrimStart(s) ==
  IF s # <<>> /\ Head(s) \in WhiteSpace THEN TrimStart(Tail(s)) ELSE s

RECURSIVE TrimEnd(_)
TrimEnd(s) ==
  IF s # <<>> /\ s[Len(s)] \in WhiteSpace THEN TrimEnd(SubSeq(s, 1, Len(s) - 1)) ELSE s

\* trimStart in place of trim
TrimStartOnly(s) == TrimStart(s)

\* String.prototype.trim
Trim(s) == TrimEnd(TrimStart(s))

\* ---- localStorage ---------------------------------------------------------
\* localStorage maps a key to an entry: absent, or a text
NoItem == [has |-> FALSE, text |-> <<>>]
Item(text) == [has |-> TRUE, text |-> text]

getItem(st, key) == IF st[key].has THEN JStr(st[key].text) ELSE JNull

setItem(st, key, text) == [st EXCEPT ![key] = Item(text)]

\* ---- the useTodos hook ----------------------------------------------------
\* the try block of the useState initializer
\* saved || "[]"
OrEmptyArrayText(saved) == IF Truthy(saved) THEN saved[2] ELSE <<"[", "]">>

\* if (Array.isArray(saved)) return saved, given the outcome p of JSON.parse
ReturnIfArray(p) ==
  [threw |-> ~p.ok,
   returned |-> p.ok /\ Tag(p.v) = "arr",
   value |-> IF p.ok /\ Tag(p.v) = "arr" THEN p.v[2] ELSE <<>>]

LoadTry(st) == ReturnIfArray(JSON_parse(OrEmptyArrayText(getItem(st, STORAGE_KEY))))

\* the initializer without its catch: a thrown SyntaxError escapes
Uncaught(b) == [raised |-> b.threw, list |-> IF b.returned THEN b.value ELSE <<>>]

\* catch {} and the final return []
CatchReturnEmpty(b) == [raised |-> FALSE, list |-> IF b.returned THEN b.value ELSE <<>>]

LoadTodosNoCatch(st) == Uncaught(LoadTry(st))

\* the useState initializer: try { ... } catch {} return []
LoadTodos(st) == CatchReturnEmpty(LoadTry(st))

NewTodo(id, title) ==
  JObj(<< <<K_id, JStr(id)>>, <<K_title, JStr(title)>>, <<K_completed, JBool(FALSE)>> >>)

addTodo(curr, id, title) == <<NewTodo(id, title)>> \o curr

removeTodo(curr, id) == SelectSeq(curr, LAMBDA t : ~StrictEq(Get(t, K_id), id))

\* toggleTodo with the comparison negated
toggleTodoOthers(curr, id) ==
  [i \in 1..Len(curr) |->
     IF ~StrictEq(Get(curr[i], K_id), id)
     THEN JObj(SetProp(OwnProps(curr[i]), K_completed,
                       JBool(~Truthy(Get(curr[i], K_completed)))))
     ELSE curr[i]]

toggleTodo(curr, id) ==
  [i \in 1..Len(curr) |->
     IF StrictEq(Get(curr[i], K_id), id)
     THEN JObj(SetProp(OwnProps(curr[i]), K_completed,
                       JBool(~Truthy(Get(curr[i], K_completed)))))
     ELSE curr[i]]

\* the updaters read t.id of every element: a null element throws
UpdaterThrows(curr) == \E i \in 1..Len(curr) : GetThrows(curr[i])

\* the effect on [todos], with a re-read and merge before the write
PersistMerged(st, list) ==
  setItem(st, STORAGE_KEY, JSON_stringify(JArr(list \o SelectSeq(LoadTodos(st).list,
       LAMBDA t : \A i \in 1..Len(list) : list[i] # t))))

\* the effect on [todos]: localStorage.setItem(STORAGE_KEY, JSON.stringify(todos))
Persist(st, list) == setItem(st, STORAGE_KEY, JSON_stringify(JArr(list)))

\* ---- rendering ------------------------------------------------------------
\* React throws on an object as a child ({t.title})
RECURSIVE InvalidChild(_)
InvalidChild(v) ==
  CASE Tag(v) = "obj" -> TRUE
    [] Tag(v) = "arr" -> \E i \in 1..Len(v[2]) : InvalidChild(v[2][i])
    [] OTHER -> FALSE

\* TodoList reads t.id, t.completed, t.title of every element and renders t.title
RenderThrows(list) ==
  \E i \in 1..Len(list) :
     GetThrows(list[i]) \/ InvalidChild(Get(list[i], K_title))

\* ---- inputs ---------------------------------------------------------------
Tabs == {1, 2}

\* what the user types into the form
Inputs == { <<"a">>, <<" ", "b", BSLASH, QUOTE, " ">>, <<" ", TAB>>, <<>> }

\* fraction digits Math.random() can return
Randoms == { <<"k">>, <<"4", "f", "z", "9", "q", "0", "m", "x">> }

\* the inputs of the two-tab specification
TabInputs == { <<"a">> }
TabRandoms == { <<"k">> }

\* Date.now() when the first tab opens
StartTime == 36 * 36 - 1

\* an id no item carries
MissingId == JStr(<<"?">>)

Text_Unparseable == <<"[", "1", ",">>
Text_Null == <<"n", "u", "l", "l">>
Text_Object == <<"{">> \o QuoteJSONString(K_id) \o <<":", "1", "}">>
Text_NumberElement == <<"[", "7", "]">>
Text_NullElement == <<"[", "n", "u", "l", "l", "]">>
Text_NoFields == <<" ", "[", "{">> \o QuoteJSONString(K_id) \o <<":">>
                 \o QuoteJSONString(<<"x">>) \o <<"}", "]", NL>>

\* a list an earlier session wrote
SavedList ==
  << NewTodo(<<"p", "1">>, <<"A">>),
     toggleTodo(<<NewTodo(<<"p", "2">>, <<"B">>)>>, JStr(<<"p", "2">>))[1],
     NewTodo(<<"p", "3">>, <<"C">>) >>

Text_Saved == JSON_stringify(JArr(SavedList))

\* what localStorage can hold under STORAGE_KEY before the first tab opens
InitialEntries ==
  { NoItem, Item(<<>>), Item(Text_Unparseable), Item(Text_Null), Item(Text_Object),
    Item(Text_NumberElement), Item(Text_NullElement), Item(Text_NoFields),
    Item(Text_Saved) }

\* ---- the record of the last step -----------------------------------------
\* op, tab and arg name the handler that ran and its argument; hits counts the
\* items whose id is the argument (toggle, remove) or the items added (submit);
\* writes counts the setItem calls of the step; raised tells whether an
\* exception escaped the handler; writer is the tab of the latest setItem.
Step(op, tab, arg, hits, writes, raised, writer) ==
  [op |-> op, tab |-> tab, arg |-> arg, hits |-> hits, writes |-> writes,
   raised |-> raised, writer |-> writer]

Hits(curr, id) ==
  Cardinality({i \in 1..Len(curr) : ~GetThrows(curr[i]) /\ StrictEq(Get(curr[i], K_id), id)})

\* ---- mounting Home: useTodos' initializer, first render, first effect -----
\* The result of mounting on storage st: the tab's state and the storage after.
Mounted(st, l, ok) ==
  [status |-> IF ok THEN "live" ELSE "crashed",
   todos |-> IF ok THEN l.list ELSE <<>>,
   storage |-> IF ok THEN Persist(st, l.list) ELSE st,
   raised |-> l.raised,
   writes |-> IF ok THEN 1 ELSE 0]

Rendered(st, l) == Mounted(st, l, ~l.raised /\ ~RenderThrows(l.list))

Mount(st) == Rendered(st, LoadTodos(st))

\* the first tab has opened the page on storage st, with outcome m
FirstTabOpened(st, m) ==
  /\ storage = m.storage
  /\ todos = [s \in Tabs |-> IF s = 1 THEN m.todos ELSE <<>>]
  /\ status = [s \in Tabs |-> IF s = 1 THEN m.status ELSE "closed"]
  /\ now = StartTime
  /\ last = Step("open", 1, getItem(st, STORAGE_KEY), 0, m.writes, m.raised,
                 IF m.writes = 1 THEN 1 ELSE 0)

InitOn(st) == FirstTabOpened(st, Mount(st))

Init == \E e \in InitialEntries : InitOn([k \in {STORAGE_KEY} |-> e])

TabOpened(s, m) ==
  /\ storage' = m.storage
  /\ todos' = [todos EXCEPT ![s] = m.todos]
  /\ status' = [status EXCEPT ![s] = m.status]
  /\ last' = Step("open", s, getItem(storage, STORAGE_KEY), 0, m.writes, m.raised,
                  IF m.writes = 1 THEN s ELSE last.writer)
  /\ UNCHANGED now

\* a tab opens the page (or reloads it)
Open(s) ==
  /\ status[s] = "closed"
  /\ TabOpened(s, Mount(storage))

\* the tab is closed; its in-memory list is gone
Close(s) ==
  /\ status[s] # "closed"
  /\ status' = [status EXCEPT ![s] = "closed"]
  /\ todos' = [todos EXCEPT ![s] = <<>>]
  /\ last' = Step("close", s, JNull, 0, 0, FALSE,
                  IF last.writer = s THEN 0 ELSE last.writer)
  /\ UNCHANGED <<storage, now>>

\* a state update of useTodos followed by the effect on [todos]
SetTodos(s, next, op, arg, hits) ==
  /\ todos' = [todos EXCEPT ![s] = next]
  /\ storage' = Persist(storage, next)
  /\ last' = Step(op, s, arg, hits, 1, FALSE, s)
  /\ UNCHANGED <<status, now>>

\* an updater throws while React applies it: the tree is unmounted
HandlerThrows(s, op, arg) ==
  /\ status' = [status EXCEPT ![s] = "crashed"]
  /\ last' = Step(op, s, arg, 0, 0, TRUE, last.writer)
  /\ UNCHANGED <<todos, storage, now>>

\* Home.onSubmit with `value` typed into the input
Submit(s, value, frac) ==
  /\ status[s] = "live"
  /\ LET v == Trim(value)
     IN IF v = <<>>
        THEN /\ last' = Step("submit", s, JStr(value), 0, 0, FALSE, last.writer)
             /\ UNCHANGED <<todos, storage, status, now>>
        ELSE /\ Len(todos[s]) < MaxTodos
             /\ SetTodos(s, addTodo(todos[s], uid(frac, now), v), "submit", JStr(value), 1)

\* the ids a handler can be called with: those of the rendered items, or none of them
IdArgs(s) == {Get(todos[s][i], K_id) : i \in 1..Len(todos[s])} \cup {MissingId}

\* onToggle(id)
Toggle(s, id) ==
  /\ status[s] = "live"
  /\ IF UpdaterThrows(todos[s])
     THEN HandlerThrows(s, "toggle", id)
     ELSE SetTodos(s, toggleTodo(todos[s], id), "toggle", id, Hits(todos[s], id))

\* onRemove(id)
Remove(s, id) ==
  /\ status[s] = "live"
  /\ IF UpdaterThrows(todos[s])
     THEN HandlerThrows(s, "remove", id)
     ELSE SetTodos(s, removeTodo(todos[s], id), "remove", id, Hits(todos[s], id))

\* a millisecond passes
Tick ==
  /\ now < StartTime + MaxTick
  /\ now' = now + 1
  /\ last' = Step("tick", 0, JNull, 0, 0, FALSE, last.writer)
  /\ UNCHANGED <<storage, todos, status>>

Handlers(s, inputs, randoms) ==
  \/ Open(s)
  \/ Close(s)
  \/ \E value \in inputs, frac \in randoms : Submit(s, value, frac)
  \/ \E id \in IdArgs(s) : Toggle(s, id)
  \/ \E id \in IdArgs(s) : Remove(s, id)

\* one tab, on any initial storage
Next == Handlers(1, Inputs, Randoms) \/ Tick

Spec == Init /\ [][Next]_vars

\* two tabs on the same localStorage, which starts empty
InitTabs == InitOn([k \in {STORAGE_KEY} |-> NoItem])

NextTabs == (\E s \in Tabs : Handlers(s, TabInputs, TabRandoms)) \/ Tick

SpecTabs == InitTabs /\ [][NextTabs]_vars

\* ---- properties -----------------------------------------------------------
Id(t) == Get(t, K_id)
Title(t) == Get(t, K_title)
Completed(t) == Get(t, K_completed)

\* a record with a string id, a string title and a boolean completed
IsTodo(t) ==
  /\ Tag(t) = "obj"
  /\ Tag(Id(t)) = "str" /\ Tag(Title(t)) = "str" /\ Tag(Completed(t)) = "bool"

\* the step taken is handler op of tab s
Ran(s, op) == last'.op = op /\ last'.tab = s /\ ~last'.raised

StoredText(list) == Item(JSON_stringify(JArr(list)))

\* C1: the ids of the items of a tab's list are pairwise distinct in every state.
C1_IdsPairwiseDistinct ==
  \A s \in Tabs : \A i, j \in 1..Len(todos[s]) :
     i # j => Id(todos[s][i]) # Id(todos[s][j])

\* C2: after every add, toggle and remove the storage entry holds the text of
\* the full new list, written by that step's single setItem, and loading from it
\* gives the tab's in-memory list back, item for item and in the same order.
C2_PersistedAfterEveryMutation ==
  (last.op \in {"submit", "toggle", "remove"} /\ ~last.raised
     /\ (last.op = "submit" => last.hits = 1))
  => /\ last.writes = 1
     /\ storage[STORAGE_KEY] = StoredText(todos[last.tab])
     /\ ~LoadTodos(storage).raised
     /\ LoadTodos(storage).list = todos[last.tab]

C2_Witness ==
  /\ last.op = "toggle" /\ last.hits = 1 /\ last.tab = 1
  /\ Len(todos[1]) = 2
  /\ \E i \in 1..2 : Title(todos[1][i]) = JStr(<<"b", BSLASH, QUOTE>>)
  /\ \E i \in 1..2 : Completed(todos[1][i]) = JBool(TRUE)

\* the stored item is absent, is not JSON, or is JSON for something that is no array
NotAStoredArray(item) ==
  \/ Tag(item) = "null"
  \/ ~JSON_parse(item[2]).ok
  \/ Tag(JSON_parse(item[2]).v) # "arr"

StoredArrayWithBadElement(item) ==
  /\ Tag(item) = "str"
  /\ JSON_parse(item[2]).ok
  /\ Tag(JSON_parse(item[2]).v) = "arr"
  /\ \E i \in 1..Len(JSON_parse(item[2]).v[2]) : ~IsTodo(JSON_parse(item[2]).v[2][i])

\* C4: a stored array with an element that is not a record with a string id, a
\* string title and a boolean completed loads as the empty list.
C4_ShapeMismatchLoadsEmpty ==
  (last.op = "open" /\ StoredArrayWithBadElement(last.arg)) => todos[last.tab] = <<>>

\* C5: add puts in front of the unchanged list a new item with the submitted
\* title, completed = false and an id that no item of the list carries.
C5_AddPrependsFreshItem ==
  [][\A s \in Tabs :
       (Ran(s, "submit") /\ last'.hits = 1)
       => /\ Len(todos'[s]) = Len(todos[s]) + 1
          /\ Tail(todos'[s]) = todos[s]
          /\ IsTodo(todos'[s][1])
          /\ Len(todos'[s][1][2]) = 3
          /\ Title(todos'[s][1]) = JStr(Trim(last'.arg[2]))
          /\ Completed(todos'[s][1]) = JBool(FALSE)
          /\ \A i \in 1..Len(todos[s]) : Id(todos[s][i]) # Id(todos'[s][1])]_vars

\* C5 without the freshness of the id: the new item is in front, the rest follows.
C5_AddPrepends ==
  [][\A s \in Tabs :
       (Ran(s, "submit") /\ last'.hits = 1)
       => /\ Tail(todos'[s]) = todos[s]
          /\ \E frac \in Randoms :
               todos'[s][1] = NewTodo(uid(frac, now), Trim(last'.arg[2]))]_vars

\* C6: toggle flips completed on the items with the id, changes nothing else,
\* and a second toggle of the same id gives the original list back.
C6_ToggleFlipsAndPairs ==
  [][\A s \in Tabs :
       Ran(s, "toggle")
       => /\ Len(todos'[s]) = Len(todos[s])
          /\ \A i \in 1..Len(todos[s]) :
               IF Id(todos[s][i]) = last'.arg
               THEN /\ Id(todos'[s][i]) = Id(todos[s][i])
                    /\ Title(todos'[s][i]) = Title(todos[s][i])
                    /\ Completed(todos'[s][i]) # Completed(todos[s][i])
               ELSE todos'[s][i] = todos[s][i]
          /\ toggleTodo(todos'[s], last'.arg) = todos[s]]_vars

\* list without its k-th element
Without(list, k) == SubSeq(list, 1, k - 1) \o SubSeq(list, k + 1, Len(list))

\* C7: remove of an id that an item carries takes exactly one item out, the one
\* with that id, and keeps the others as they were and in their order.
C7_RemoveTakesExactlyOne ==
  [][\A s \in Tabs :
       (Ran(s, "remove") /\ last'.hits >= 1)
       => \E k \in 1..Len(todos[s]) :
            /\ Id(todos[s][k]) = last'.arg
            /\ todos'[s] = Without(todos[s], k)]_vars

\* C8: toggle and remove with an id that no item carries leave the list as it
\* is and raise nothing.
C8_MissingIdIsNoOp ==
  [][\A s \in Tabs :
       ( /\ last'.op \in {"toggle", "remove"} /\ last'.tab = s
         /\ status[s] = "live"
         /\ \A i \in 1..Len(todos[s]) : Id(todos[s][i]) # last'.arg )
       => /\ todos'[s] = todos[s]
          /\ ~last'.raised
          /\ status'[s] = "live"]_vars

C8_Witness ==
  /\ last.op = "toggle" /\ last.arg = MissingId /\ last.hits = 0 /\ ~last.raised
  /\ Len(todos[last.tab]) >= 2
  /\ \E i \in 1..Len(todos[last.tab]) : Completed(todos[last.tab][i]) = JBool(TRUE)

AllWhiteSpace(text) == \A i \in 1..Len(text) : text[i] \in WhiteSpace

\* t is text without the white space at its two ends, and is not empty
IsTrimmedOf(t, text) ==
  /\ t # <<>>
  /\ t[1] \notin WhiteSpace /\ t[Len(t)] \notin WhiteSpace
  /\ \E a, b \in 1..Len(text) :
       /\ t = SubSeq(text, a, b)
       /\ AllWhiteSpace(SubSeq(text, 1, a - 1))
       /\ AllWhiteSpace(SubSeq(text, b + 1, Len(text)))

\* C9: a submission of blank input changes neither the list nor the stored
\* value; any other submission adds an item whose title is the input without
\* the white space at its ends; no step changes the title of an item.
C9_NoBlankTitleStored ==
  [][\A s \in Tabs :
       /\ (last'.op = "submit" /\ last'.tab = s /\ AllWhiteSpace(last'.arg[2]))
          => todos' = todos /\ storage' = storage /\ last'.hits = 0
       /\ (last'.op = "submit" /\ last'.tab = s /\ ~AllWhiteSpace(last'.arg[2]))
          => /\ last'.hits = 1
             /\ Tag(Title(todos'[s][1])) = "str"
             /\ IsTrimmedOf(Title(todos'[s][1])[2], last'.arg[2])
       /\ (last'.op = "toggle" /\ last'.tab = s)
          => \A i \in 1..Len(todos'[s]) : Title(todos'[s][i]) = Title(todos[s][i])
       /\ (last'.op \in {"submit", "remove"} /\ last'.tab = s)
          => \A i \in 1..Len(todos'[s]) :
               \/ last'.op = "submit" /\ last'.hits = 1 /\ i = 1
               \/ \E j \in 1..Len(todos[s]) : todos'[s][i] = todos[s][j]]_vars

C9_Witness ==
  /\ last.op = "submit" /\ last.arg = JStr(<<" ", TAB>>) /\ last.hits = 0
  /\ \E i \in 1..Len(todos[1]) : Title(todos[1][i]) = JStr(<<"b", BSLASH, QUOTE>>)
  /\ \E i \in 1..Len(todos[1]) : Completed(todos[1][i]) = JBool(TRUE)

\* C10: with two tabs on one storage entry, the stored value is the text of the
\* list of the tab that wrote last, whatever the other tab holds.
C10_LastWriterWins ==
  last.writer # 0
  => /\ status[last.writer] = "live"
     /\ storage[STORAGE_KEY] = StoredText(todos[last.writer])

\* both tabs are open, tab 1 wrote last, and tab 2 holds an item that the stored
\* list lacks
C10_Witness ==
  /\ status[1] = "live" /\ status[2] = "live"
  /\ last.writer = 1 /\ last.op = "submit" /\ last.hits = 1
  /\ \E i \in 1..Len(todos[2]) :
       \A j \in 1..Len(LoadTodos(storage).list) :
          Id(todos[2][i]) # Id(LoadTodos(storage).list[j])

====
